---- MODULE Spec2Model ----
(***************************************************************************)
(* A model of replay.py: the chunk planner (chunkify), the chunk worker    *)
(* and its record matcher (process_wrapper), the search coordinator        *)
(* (search_log_files, search_and_return_log_data), the turn fold           *)
(* (transform), the replay keys (get_replay_keys) and the choice of one    *)
(* (get_user_input).                                                       *)
(*                                                                         *)
(* Strings are sequences of one-character strings, so that seek, read,     *)
(* readline, splitlines, split and the tag pattern are computed on the     *)
(* characters as the Python 2 code computes them.  File offsets are        *)
(* 0-based as in the code: the byte at offset o of s is s[o + 1].          *)
(***************************************************************************)
EXTENDS Integers, Sequences, FiniteSets, TLC

\* ---------------------------------------------------------------- bounds
\* longest file, in bytes, whose chunk plan is explored exhaustively
MaxFileLen == 4
\* largest target chunk size of the exhaustive chunk plans (0..MaxSize)
MaxSize == 3
\* most lines of the chunk process_wrapper is followed through line by line
MaxChunkLines == 2
\* most log files of a search
MaxFiles == 2
\* most lines of the log files of a search together
MaxLines == 2
\* most workers of the pool
MaxCores == 2

VARIABLES
  size,        \* chunkify's parameter `size`
  gfile,       \* content of the file chunkify has open (fname)
  fileEnd,     \* chunkify: os.path.getsize(fname)
  fpos,        \* chunkify: f.tell()
  chunkStart,  \* chunkify: chunkStart
  chunkEnd,    \* chunkify: chunkEnd
  gpc,         \* chunkify: position of the generator
  prevChunk,   \* history: the chunk consumed last, <<>> before the first
  assembled,   \* history: the bytes read back from the chunks consumed so far
  scanned,     \* history: the lines the chunks consumed so far split into
  key,         \* the replay key: <<time_utc, game_id, snake_id>>
  wargs,       \* process_wrapper's <<file content, chunkStart, chunkSize>>
  lines,       \* process_wrapper: lines
  li,          \* process_wrapper: index in lines of the line the loop is at
  result_data, \* process_wrapper: result_data
  wpc,         \* process_wrapper: position ("idle", "open", "scan", "returned", "raised")
  outcome,     \* history: what the loop did with the line it processed last
  logfiles,    \* the contents of the files glob.glob(LOG_FILES) lists, in its order
  cores,       \* search_log_files: cores, the size of the pool
  pool,        \* search_log_files: the pool ("none", "open", "closed")
  pc,          \* position of the main program
  fi,          \* search_log_files: index in logfiles of `filename`
  jobs,        \* search_log_files: jobs, each with the state of its task
  ji,          \* search_log_files: index in jobs of `job`
  payloads,    \* search_log_files: payloads
  results,     \* search_log_files: results, as returned to the caller
  err,         \* the message of the exception that ended the program
  data_list,   \* transform: data_list
  completed,   \* history: the payloads of the tasks in the order the tasks completed
  turns,       \* transform: turns
  ti,          \* transform: index in data_list of the payload the loop is at
  tpc,         \* transform: position ("idle", "enter", "loop", "returned", "raised")
  placed,      \* history: index in turns of the entry the last payload was put in, or 0
  option_list, \* get_user_input: option_list
  choice,      \* get_user_input: choice
  upc          \* get_user_input: position ("idle", "prompt", "check", "index", "returned", "raised")

chunkVars == <<size, gfile, fileEnd, fpos, chunkStart, chunkEnd, gpc>>
readerVars == <<prevChunk, assembled, scanned>>
workerVars == <<wargs, lines, li, result_data, wpc, outcome>>
searchVars == <<logfiles, cores, pool, pc, fi, jobs, ji, payloads, results, err, completed>>

transformVars == <<data_list, turns, ti, tpc, placed>>

inputVars == <<option_list, choice, upc>>

vars == <<chunkVars, readerVars, key, workerVars, searchVars, transformVars, inputVars>>

\* ------------------------------------------------------- string helpers
NL == "\n"
CR == "\r"

Min(a, b) == IF a < b THEN a ELSE b

\* every string of at most n characters over the alphabet A
StringsUpTo(A, n) == UNION {[1..k -> A] : k \in 0..n}

\* s[from:] (0-based)
Drop(s, from) == SubSeq(s, from + 1, Len(s))

\* ---------------------------------------------------- file primitives
\* (mutant) the seek is absolute: f.seek(size)
SeekAbsolute(pos, n) == n

\* f.seek(size, 1): relative to the current position; the C library lets
\* the position pass the end of the file
SeekCur(pos, n) == pos + n

\* (mutant) the f.readline() is left out
TellWithoutReadline(content, pos) == pos

\* f.readline() at pos followed by f.tell(): the position after the next
\* "\n" at or after pos, the end of the file when there is none, and pos
\* itself when pos is at or past the end
TellAfterReadline(content, pos) ==
  IF pos >= Len(content) THEN pos
  ELSE
    LET ends == {o \in pos + 1..Len(content) : content[o] = NL} IN
    IF ends = {} THEN Len(content)
    ELSE CHOOSE o \in ends : \A j \in ends : o <= j

\* f.seek(chunkStart); f.read(chunkSize)
ReadChunk(content, start, n) ==
  SubSeq(content, start + 1, Min(start + n, Len(content)))

\* str.splitlines(): "\n", "\r" and "\r\n" end a line, the terminators are
\* dropped and no empty last line is produced
RECURSIVE SplitFrom(_, _)
SplitFrom(s, from) ==
  IF from > Len(s) THEN <<>>
  ELSE
    LET ends == {i \in from..Len(s) : s[i] = NL \/ s[i] = CR} IN
    IF ends = {} THEN <<SubSeq(s, from, Len(s))>>
    ELSE
      LET e == CHOOSE i \in ends : \A j \in ends : i <= j
          next == IF s[e] = CR /\ e < Len(s) /\ s[e + 1] = NL THEN e + 2 ELSE e + 1
      IN <<SubSeq(s, from, e - 1)>> \o SplitFrom(s, next)

SplitLines(s) == SplitFrom(s, 1)

\* str.split(sep): one more part than there are separators in s
RECURSIVE SplitOn(_, _, _, _)
SplitOn(s, sep, i, cur) ==
  IF i > Len(s) THEN <<cur>>
  ELSE IF s[i] = sep THEN <<cur>> \o SplitOn(s, sep, i + 1, <<>>)
  ELSE SplitOn(s, sep, i + 1, Append(cur, s[i]))

Split(s, sep) == SplitOn(s, sep, 1, <<>>)

\* "\n".join(ls)
RECURSIVE Join(_, _)
Join(ls, sep) ==
  IF ls = <<>> THEN <<>>
  ELSE IF Len(ls) = 1 THEN ls[1]
  ELSE ls[1] \o <<sep>> \o Join(Tail(ls), sep)

\* ------------------------------------------------------ record matcher
TAB == "\t"
COLON == ":"
DOT == "."
ANY == "any character"

\* the pattern 'luasnake.info.' of the tag: a "." of it matches any
\* character of a line
TagPattern == <<"l", "u", "a", "s", "n", "a", "k", "e", ANY, "i", "n", "f", "o", ANY>>

\* the tag prefix the logger writes
TagPrefix == <<"l", "u", "a", "s", "n", "a", "k", "e", DOT, "i", "n", "f", "o", DOT>>

\* whether TagPattern matches s at 0-based offset o
PatternAt(s, o) ==
  /\ o + Len(TagPattern) <= Len(s)
  /\ \A j \in 1..Len(TagPattern) : TagPattern[j] = ANY \/ TagPattern[j] = s[o + j]

\* re.search('(?:luasnake.info.)(.*)', tag): <<>> for None, else
\* <<group(0)>>: the leftmost match, which runs to the end of the tag
RECURSIVE SearchFrom(_, _)
SearchFrom(tag, o) ==
  IF o + Len(TagPattern) > Len(tag) THEN <<>>
  ELSE IF PatternAt(tag, o) THEN <<Drop(tag, o)>>
  ELSE SearchFrom(tag, o + 1)

ReSearch(tag) == SearchFrom(tag, 0)

Digits == {"0", "1", "2", "3", "4", "5", "6", "7", "8", "9"}

DigitValue(c) ==
  CASE c = "0" -> 0 [] c = "1" -> 1 [] c = "2" -> 2 [] c = "3" -> 3 [] c = "4" -> 4
    [] c = "5" -> 5 [] c = "6" -> 6 [] c = "7" -> 7 [] c = "8" -> 8 [] c = "9" -> 9

RECURSIVE Decimal(_)
Decimal(ds) ==
  IF ds = <<>> THEN 0 ELSE 10 * Decimal(SubSeq(ds, 1, Len(ds) - 1)) + DigitValue(ds[Len(ds)])

\* whether float(s) accepts s, for s written with digits and "." only:
\* at most one ".", at least one digit
IsFloat(s) ==
  /\ \A j \in 1..Len(s) : s[j] \in Digits \cup {DOT}
  /\ Cardinality({j \in 1..Len(s) : s[j] = DOT}) <= 1
  /\ \E j \in 1..Len(s) : s[j] \in Digits

\* time.strftime('%Y-%m-%d %H:%M:%S', time.localtime(float(s))): localtime
\* drops the fraction, and the text shows the whole second, which stands
\* for the text here
TimeUtc(s) == Decimal(Split(s, DOT)[1])

\* keys[0][-1]
LastChar(s) == <<s[Len(s)]>>

\* the game id process_wrapper takes from keys[0]
GameIdOf(keys0) == LastChar(keys0)

\* `key[2] == snake_id and key[1] == game_id and key[0] == time_utc`
\* (the tuple is 1-based here: key[1] is the time, key[2] the game id,
\* key[3] the snake id)
KeyEquals(k, time_utc, game_id, snake_id) ==
  k[3] = snake_id /\ k[2] = game_id /\ k[1] = time_utc

\* one pass of the loop body of process_wrapper over `line`:
\*   "IndexError"  splits[1] or splits[2] does not exist
\*   "skip"        one of the three `continue`
\*   "ValueError"  float(timestamp) rejects the timestamp
\*   "match"       the payload is appended
\*   "miss"        the key differs
ScanLine(line, k) ==
  LET splits == Split(line, TAB) IN
  IF Len(splits) < 3 THEN "IndexError"
  ELSE
    LET tag == splits[2]
        key_matches == ReSearch(tag)
    IN
    IF key_matches = <<>> THEN "skip"
    ELSE
      LET keys == Split(key_matches[1], COLON) IN
      IF Len(keys) < 3 THEN "skip"
      ELSE
        LET game_id == GameIdOf(keys[1])
            snake_id == keys[2]
            timestamp == keys[3]
        IN
        IF timestamp = <<>> THEN "skip"
        ELSE IF ~IsFloat(timestamp) THEN "ValueError"
        ELSE IF KeyEquals(k, TimeUtc(timestamp), game_id, snake_id) THEN "match"
        ELSE "miss"

\* payload = splits[2]
PayloadOf(line) == Split(line, TAB)[3]

Raises(o) == o \in {"IndexError", "ValueError"}

\* ------------------------------------------------------- replay keys
\* the number of digits of s from the 0-based offset o on
RECURSIVE DigitRun(_, _)
DigitRun(s, o) == IF o < Len(s) /\ s[o + 1] \in Digits THEN 1 + DigitRun(s, o + 1) ELSE 0

\* '([0-9]*)(?::)(.*)(?::)(.*)' matched at the 0-based offset o: the digits
\* there, a ":", then as much as leaves a last ":" and what follows it;
\* <<>> for no match, else <<group(1), group(2), group(3)>>
IdsAt(s, o) ==
  LET c == o + DigitRun(s, o)
      colons == {i \in c + 2..Len(s) : s[i] = COLON}
  IN IF c < Len(s) /\ s[c + 1] = COLON /\ colons # {}
     THEN LET last == CHOOSE i \in colons : \A j \in colons : j <= i
          IN <<SubSeq(s, o + 1, c), SubSeq(s, c + 2, last - 1), SubSeq(s, last + 1, Len(s))>>
     ELSE <<>>

\* re.search of that pattern: the leftmost match
RECURSIVE SearchIds(_, _)
SearchIds(s, o) ==
  IF o > Len(s) THEN <<>>
  ELSE IF IdsAt(s, o) # <<>> THEN IdsAt(s, o)
  ELSE SearchIds(s, o + 1)

\* what get_replay_keys does with the log_id of an index entry:
\*   "AttributeError"  the pattern does not match, ids is None
\*   "skip"            ids.group(3) == '': continue
\*   "ValueError"      float rejects the timestamp
\*   else the option appended: (time_utc, ids.group(1), ids.group(2))
ReplayKeyOf(log_id) ==
  LET ids == SearchIds(log_id, 0) IN
  IF ids = <<>> THEN "AttributeError"
  ELSE IF ids[3] = <<>> THEN "skip"
  ELSE IF ~IsFloat(ids[3]) THEN "ValueError"
  ELSE <<TimeUtc(ids[3]), ids[1], ids[2]>>

\* ------------------------------------------------------------ log lines
\* a log line: time, tag and payload separated by tabs
MkLine(time, tag, payload) == time \o <<TAB>> \o tag \o <<TAB>> \o payload

\* the encoded key matchId:participantId:unixTimestamp
LogId(m, p, ts) == m \o <<COLON>> \o p \o <<COLON>> \o ts

MatchIds == {<<"3">>, <<"1", "3">>}
Participants == {<<"7">>, <<"8">>}
Timestamps == {<<"5">>, <<"5", DOT, "5">>, <<"6">>}
KeyTimes == {5, 6}
Payloads == {<<"A">>, <<"B">>}

\* the replay keys get_replay_keys builds: (time_utc, game id, snake id)
Keys == KeyTimes \X MatchIds \X Participants

WellFormedLine(m, p, ts, pl) == MkLine(<<"T">>, TagPrefix \o LogId(m, p, ts), pl)

WellFormedLines ==
  {WellFormedLine(m, p, ts, <<"A">>) : m \in MatchIds, p \in Participants, ts \in Timestamps}

LineA == WellFormedLine(<<"3">>, <<"7">>, <<"5">>, <<"A">>)
LineB == WellFormedLine(<<"3">>, <<"7">>, <<"5", DOT, "5">>, <<"B">>)
LineOther == WellFormedLine(<<"3">>, <<"8">>, <<"5">>, <<"A">>)

EmptyLine == <<>>
TwoFieldLine == <<"T", TAB>> \o TagPrefix \o LogId(<<"3">>, <<"7">>, <<"5">>)
NoTagLine == MkLine(<<"T">>, <<"o">> \o LogId(<<"3">>, <<"7">>, <<"5">>), <<"A">>)
TwoPartLine == MkLine(<<"T">>, TagPrefix \o <<"3", COLON, "7">>, <<"A">>)
NoTimestampLine == MkLine(<<"T">>, TagPrefix \o LogId(<<"3">>, <<"7">>, <<>>), <<"A">>)
BadTimestampLine == MkLine(<<"T">>, TagPrefix \o LogId(<<"3">>, <<"7">>, <<"x">>), <<"A">>)

MalformedLines ==
  {EmptyLine, TwoFieldLine, NoTagLine, TwoPartLine, NoTimestampLine, BadTimestampLine}

LineUniverse == WellFormedLines \cup MalformedLines \cup {LineB}

\* the text of a file holding the lines ls, with or without a last newline
FileText(ls, trailing) == Join(ls, NL) \o (IF trailing /\ ls # <<>> THEN <<NL>> ELSE <<>>)

\* ScanLine and PayloadOf of the lines and keys of this model, tabulated
\* (f @@ Tabulated is f; it makes TLC compute the values of f once)
Tabulated == [z \in {} |-> z]
ScanTable == [l \in LineUniverse |-> ([k \in Keys |-> ScanLine(l, k)] @@ Tabulated)] @@ Tabulated
PayloadLines == WellFormedLines \cup {LineB}
PayloadTable == [l \in PayloadLines |-> PayloadOf(l)] @@ Tabulated

\* ScanLine(line, k)
Scan(line, k) ==
  IF line \in LineUniverse /\ k \in Keys THEN ScanTable[line][k] ELSE ScanLine(line, k)

\* PayloadOf(line)
Payload(line) ==
  IF line \in PayloadLines THEN PayloadTable[line] ELSE PayloadOf(line)

\* -------------------------------------------------------- chunk worker
\* with open(filename) as f: f.seek(chunkStart);
\* lines = f.read(chunkSize).splitlines()
WorkerOpen ==
  /\ wpc = "open"
  /\ lines' = SplitLines(ReadChunk(wargs[1], wargs[2], wargs[3]))
  /\ li' = 1
  /\ wpc' = "scan"
  /\ UNCHANGED <<wargs, result_data, outcome>>

\* one pass of `for line in lines`: an exception leaves the function, a
\* match appends the payload, anything else goes on to the next line
WorkerLine ==
  /\ wpc = "scan"
  /\ li <= Len(lines)
  /\ outcome' = Scan(lines[li], key)
  /\ IF Raises(outcome')
       THEN wpc' = "raised" /\ UNCHANGED <<li, result_data>>
       ELSE /\ li' = li + 1
            /\ result_data' = IF outcome' = "match"
                                THEN Append(result_data, Payload(lines[li]))
                                ELSE result_data
            /\ UNCHANGED wpc
  /\ UNCHANGED <<wargs, lines>>

\* return result_data
WorkerReturn ==
  /\ wpc = "scan"
  /\ li > Len(lines)
  /\ wpc' = "returned"
  /\ UNCHANGED <<wargs, lines, li, result_data, outcome>>

\* process_wrapper(filename, key, chunkStart, chunkSize) is called
WorkerCall(content, start, n) ==
  /\ wargs = <<content, start, n>>
  /\ lines = <<>>
  /\ li = 0
  /\ result_data = <<>>
  /\ wpc = "open"
  /\ outcome = "none"

\* no call of process_wrapper is being followed line by line
WorkerIdle ==
  /\ wargs = <<>>
  /\ lines = <<>>
  /\ li = 0
  /\ result_data = <<>>
  /\ wpc = "idle"
  /\ outcome = "none"

\* process_wrapper as one step: the loop over the lines, from line i on
RECURSIVE ScanAll(_, _, _, _)
ScanAll(ls, k, i, acc) ==
  IF i > Len(ls) THEN [raised |-> FALSE, data |-> acc]
  ELSE LET o == Scan(ls[i], k) IN
       IF Raises(o) THEN [raised |-> TRUE, data |-> <<>>]
       ELSE ScanAll(ls, k, i + 1, IF o = "match" THEN Append(acc, Payload(ls[i])) ELSE acc)

ProcessWrapper(content, k, start, n) ==
  ScanAll(SplitLines(ReadChunk(content, start, n)), k, 1, <<>>)

\* ------------------------------------------------------------ chunkify
\* the default of chunkify's parameter `size`
DefaultChunkSize == 1024 * 1024

\* the bytes of the files whose chunk plans are explored exhaustively
ByteAlphabet == {"a", CR, NL}

\* one pass of the loop body up to the yield: chunkStart = chunkEnd;
\* f.seek(size, 1); f.readline(); chunkEnd = f.tell()
ChunkifyIter ==
  /\ chunkStart' = chunkEnd
  /\ fpos' = TellAfterReadline(gfile, SeekCur(fpos, size))
  /\ chunkEnd' = fpos'

\* (mutant) the end offset is yielded in place of the length
YieldedEndOffset(cs, ce) == <<cs, ce>>

\* the value of `yield chunkStart, chunkEnd - chunkStart`
YieldValue(cs, ce) == <<cs, ce - cs>>

\* the value the suspended generator has yielded
Yielded == YieldValue(chunkStart, chunkEnd)

\* `if chunkEnd > fileEnd: break`
ChunkifyBreaks == chunkEnd > fileEnd

\* the first next() of the generator runs from the top of chunkify to the
\* first yield; fileEnd and f.tell() of the freshly opened file were read
\* when the generator state was set up (see ChunkifyCall)
ChunkifyFirst ==
  /\ gpc = "start"
  /\ ChunkifyIter
  /\ gpc' = "yielded"
  /\ UNCHANGED <<size, gfile, fileEnd>>

\* a later next() resumes after the yield: the break test fails and the
\* loop body runs to the next yield
ChunkifyNext ==
  /\ gpc = "suspended"
  /\ ~ChunkifyBreaks
  /\ ChunkifyIter
  /\ gpc' = "yielded"
  /\ UNCHANGED <<size, gfile, fileEnd>>

\* a later next() resumes after the yield: the break test succeeds and the
\* generator is exhausted
ChunkifyStop ==
  /\ gpc = "suspended"
  /\ ChunkifyBreaks
  /\ gpc' = "done"
  /\ UNCHANGED <<size, gfile, fileEnd, fpos, chunkStart, chunkEnd>>

\* chunkify(fname, size) is called: os.path.getsize, open, f.tell()
ChunkifyCall(content, sz) ==
  /\ gfile = content
  /\ size = sz
  /\ fileEnd = Len(content)
  /\ fpos = 0
  /\ chunkStart = 0
  /\ chunkEnd = 0
  /\ gpc = "start"

\* the consumer of one yielded chunk reads it back the way the worker
\* does: f.seek(chunkStart); f.read(chunkSize).splitlines()
ReadBack ==
  /\ gpc = "yielded"
  /\ prevChunk' = Yielded
  /\ assembled' = assembled \o ReadChunk(gfile, Yielded[1], Yielded[2])
  /\ scanned' = scanned \o SplitLines(ReadChunk(gfile, Yielded[1], Yielded[2]))
  /\ gpc' = "suspended"
  /\ UNCHANGED <<size, gfile, fileEnd, fpos, chunkStart, chunkEnd>>

\* search_log_files is not running
SearchIdle ==
  /\ logfiles = <<>>
  /\ cores = 0
  /\ pool = "none"
  /\ pc = "idle"
  /\ fi = 0
  /\ jobs = <<>>
  /\ ji = 0
  /\ payloads = <<>>
  /\ results = <<>>
  /\ err = "none"
  /\ completed = <<>>

\* no chunk is being read back
ReaderIdle ==
  /\ prevChunk = <<>>
  /\ assembled = <<>>
  /\ scanned = <<>>

\* transform is not running
TransformIdle ==
  /\ data_list = <<>>
  /\ turns = <<>>
  /\ ti = 0
  /\ tpc = "idle"
  /\ placed = 0

\* get_user_input is not running
InputIdle ==
  /\ option_list = <<>>
  /\ choice = 0
  /\ upc = "idle"

\* the chunk plan of one file, for every file of at most MaxFileLen bytes
\* and every target size of at most MaxSize

InitChunk ==
  /\ \E content \in StringsUpTo(ByteAlphabet, MaxFileLen), sz \in 0..MaxSize :
       ChunkifyCall(content, sz)
  /\ ReaderIdle
  /\ key = <<>>
  /\ WorkerIdle
  /\ SearchIdle
  /\ TransformIdle
  /\ InputIdle

NextChunk ==
  \/ ChunkifyFirst /\ UNCHANGED <<readerVars, key, workerVars, searchVars, transformVars, inputVars>>
  \/ ChunkifyNext /\ UNCHANGED <<readerVars, key, workerVars, searchVars, transformVars, inputVars>>
  \/ ChunkifyStop /\ UNCHANGED <<readerVars, key, workerVars, searchVars, transformVars, inputVars>>
  \/ ReadBack /\ UNCHANGED <<key, workerVars, searchVars, transformVars, inputVars>>

SpecChunk == InitChunk /\ [][NextChunk]_vars

\* the for loop over the generator keeps asking for the next chunk
SpecChunkFair == SpecChunk /\ WF_vars(NextChunk)

\* C1: the first chunk starts at offset 0, each chunk starts where the one
\* before it ended, and the bytes read back from the chunks, in order, are
\* the bytes of the file once: a prefix of it while chunks remain, all of
\* it when the generator is exhausted.
ChunkCoverage ==
  /\ gpc = "yielded" =>
       chunkStart = (IF prevChunk = <<>> THEN 0 ELSE prevChunk[1] + prevChunk[2])
  /\ gpc \in {"suspended", "done"} =>
       /\ prevChunk # <<>>
       /\ assembled = SubSeq(gfile, 1, Min(prevChunk[1] + prevChunk[2], Len(gfile)))
  /\ gpc = "done" => assembled = gfile

\* C1 witness: a file without a trailing newline was planned into several
\* chunks, the last of them not empty, and read back whole
ChunkCoverageWitness ==
  /\ gpc = "done"
  /\ prevChunk # <<>>
  /\ prevChunk[1] > 0
  /\ prevChunk[1] < Len(gfile)
  /\ gfile[Len(gfile)] # NL
  /\ assembled = gfile

\* the byte before offset o is a "\n"
AfterNewline(o) == o >= 1 /\ o <= Len(gfile) /\ gfile[o] = NL

\* C2 as stated: every chunk starts at offset 0 or right after a line
\* terminator, and ends right after a line terminator or at or after the end
\* of the file; the lines of the chunks are the lines of the file.  (Stated
\* for the target sizes of at least 1, where it already fails.)
LineAlignmentAsStated ==
  /\ (gpc = "yielded" /\ size >= 1) =>
       /\ chunkStart = 0 \/ AfterNewline(chunkStart)
       /\ chunkEnd >= fileEnd \/ AfterNewline(chunkEnd)
  /\ gpc = "done" => scanned = SplitLines(gfile)

\* C2 amended: a chunk may also start at the end of the file (the empty
\* chunk that follows a chunk ending exactly there); otherwise as stated.
LineAlignment ==
  /\ gpc = "yielded" =>
       /\ chunkStart = 0 \/ AfterNewline(chunkStart) \/ chunkStart = fileEnd
       /\ chunkEnd >= fileEnd \/ AfterNewline(chunkEnd)
  /\ gpc = "done" => scanned = SplitLines(gfile)

\* C2 witness: a chunk that starts inside the file right after a "\r\n"
LineAlignmentWitness ==
  /\ gpc = "yielded"
  /\ chunkStart >= 2
  /\ chunkStart < fileEnd
  /\ gfile[chunkStart] = NL
  /\ gfile[chunkStart - 1] = CR

\* C9 as stated: for every file and every target size the generator is
\* eventually exhausted.
ChunkifyTerminates == <>(gpc = "done")

\* C9 amended: for every target size of at least 1 the generator is
\* eventually exhausted.
ChunkifyTerminatesPositive == (size >= 1) ~> (gpc = "done")

\* C9 witness: a plan of several chunks with a positive target size ended
ChunkifyTerminatesWitness ==
  /\ gpc = "done"
  /\ size >= 1
  /\ prevChunk # <<>>
  /\ prevChunk[1] > 0

\* --------------------------------------------- one chunk, line by line
\* no chunk plan is being followed
ChunkifyIdle ==
  /\ gfile = <<>>
  /\ fileEnd = 0
  /\ fpos = 0
  /\ chunkStart = 0
  /\ chunkEnd = 0
  /\ gpc = "idle"

\* process_wrapper on a chunk that is a whole file of at most MaxChunkLines
\* lines, for every replay key
InitMatch ==
  /\ \E ls \in StringsUpTo(LineUniverse, MaxChunkLines), trailing \in BOOLEAN :
       WorkerCall(FileText(ls, trailing), 0, Len(FileText(ls, trailing)))
  /\ key \in Keys
  /\ size = DefaultChunkSize
  /\ ChunkifyIdle
  /\ ReaderIdle
  /\ SearchIdle
  /\ TransformIdle
  /\ InputIdle

NextMatch ==
  \/ WorkerOpen /\ UNCHANGED <<chunkVars, readerVars, key, searchVars, transformVars, inputVars>>
  \/ WorkerLine /\ UNCHANGED <<chunkVars, readerVars, key, searchVars, transformVars, inputVars>>
  \/ WorkerReturn /\ UNCHANGED <<chunkVars, readerVars, key, searchVars, transformVars, inputVars>>

SpecMatch == InitMatch /\ [][NextMatch]_vars

\* the line the loop of process_wrapper processed last
LastLine == lines[IF wpc = "raised" THEN li ELSE li - 1]

\* C4: for every well-formed line and every replay key, the line's payload
\* is returned if and only if the (match id, participant id, formatted
\* start time) of the line's tag is the key's, match ids of several
\* characters included.
MatchCorrectness ==
  outcome # "none" =>
    \A m \in MatchIds, p \in Participants, ts \in Timestamps :
      LastLine = WellFormedLine(m, p, ts, <<"A">>) =>
        (   (outcome = "match" /\ result_data # <<>> /\ result_data[Len(result_data)] = <<"A">>)
        <=> key = <<TimeUtc(ts), m, p>>)

\* the malformed lines the matcher is to skip: fewer than 3 tab-separated
\* fields, a tag without the prefix, fewer than 3 colon-separated parts, or
\* an empty timestamp
Tolerated(line) ==
  \/ Len(Split(line, TAB)) < 3
  \/ ReSearch(Split(line, TAB)[2]) = <<>>
  \/ Len(Split(ReSearch(Split(line, TAB)[2])[1], COLON)) < 3
  \/ Split(ReSearch(Split(line, TAB)[2])[1], COLON)[3] = <<>>

\* C5: process_wrapper does not raise on a line with fewer than 3
\* tab-separated fields, an unmatched tag, fewer than 3 key parts or an
\* empty timestamp: it skips the line and scans the rest of the chunk.
Tolerance ==
  /\ wpc = "raised" => ~Tolerated(LastLine)
  /\ (outcome # "none" /\ wpc # "raised" /\ Tolerated(LastLine)) => outcome = "skip"

\* C14: the replay key get_replay_keys builds from the log_id
\* 'matchId:participantId:unixTimestamp' of an index entry matches, in
\* process_wrapper, every line whose tag is 'luasnake.info.' followed by
\* that log_id, whatever the number of digits of the match id.
KeyRoundTrip ==
  outcome # "none" =>
    \A m \in MatchIds, p \in Participants, ts \in Timestamps :
      (LastLine = WellFormedLine(m, p, ts, <<"A">>) /\ key = ReplayKeyOf(LogId(m, p, ts))) =>
        (outcome = "match" /\ result_data # <<>> /\ result_data[Len(result_data)] = <<"A">>)

\* ------------------------------------------------- search coordinator
NoLogFiles == "FATAL : Could not find logfiles"
NoLogData == "FATAL: No log data found"
JobFailed == "exception of a worker job"

\* (mutant) only the payloads of the first job are returned
FlattenFirstOnly(ps) == IF ps = <<>> THEN <<>> ELSE ps[1]

\* (mutant) the results are merged in the order the tasks completed
FlattenAsCompleted(ps) == completed

\* results = [item for items in payloads for item in items]
RECURSIVE Flatten(_)
Flatten(ps) == IF ps = <<>> THEN <<>> ELSE ps[1] \o Flatten(Tail(ps))

\* (mutant) the empty result is not checked
IsEmptyNever(ps) == FALSE

\* `if len(payloads) == 0` of search_and_return_log_data
IsEmpty(ps) == Len(ps) = 0

\* the tasks the pool's workers can be running: it has `cores` workers and
\* hands them the tasks in the order of submission, so these are the first
\* `cores` tasks that have not completed
Unfinished == {j \in 1..Len(jobs) : jobs[j].state = "queued"}
Runnable == {j \in Unfinished : Cardinality({i \in Unfinished : i < j}) < cores}

\* cores = mp.cpu_count(); pool = mp.Pool(cores); jobs = [];
\* logfiles = glob.glob(LOG_FILES); if not logfiles: raise
SearchEnter ==
  /\ pc = "enter"
  /\ pool' = "open"
  /\ jobs' = <<>>
  /\ IF logfiles = <<>>
       THEN pc' = "raised" /\ err' = NoLogFiles
       ELSE pc' = "files" /\ UNCHANGED err
  /\ UNCHANGED <<logfiles, cores, fi, ji, payloads, results, completed>>
  /\ UNCHANGED <<chunkVars, readerVars, key, workerVars, transformVars, inputVars>>

\* `for filename in logfiles`: the next file, and chunkify(filename) is
\* called on it
NextFile ==
  /\ pc = "files"
  /\ fi < Len(logfiles)
  /\ fi' = fi + 1
  /\ gfile' = logfiles[fi + 1]
  /\ fileEnd' = Len(logfiles[fi + 1])
  /\ fpos' = 0
  /\ chunkStart' = 0
  /\ chunkEnd' = 0
  /\ gpc' = "start"
  /\ pc' = "chunks"
  /\ UNCHANGED <<size, logfiles, cores, pool, jobs, ji, payloads, results, err, completed>>
  /\ UNCHANGED <<readerVars, key, workerVars, transformVars, inputVars>>

\* `for chunkStart, chunkSize in chunkify(filename)`: the generator runs to
\* its next yield, and the loop body submits the chunk:
\* jobs.append(pool.apply_async(process_wrapper,
\*                              (filename, key, chunkStart, chunkSize)))
SubmitJob ==
  /\ pc = "chunks"
  /\ gpc = "start" \/ (gpc = "suspended" /\ ~ChunkifyBreaks)
  /\ ChunkifyIter
  /\ gpc' = "suspended"
  /\ jobs' = Append(jobs, [file |-> fi,
                           start |-> YieldValue(chunkStart', chunkEnd')[1],
                           size |-> YieldValue(chunkStart', chunkEnd')[2],
                           state |-> "queued", result |-> <<>>])
  /\ UNCHANGED <<size, gfile, fileEnd>>
  /\ UNCHANGED <<logfiles, cores, pool, pc, fi, ji, payloads, results, err, completed>>
  /\ UNCHANGED <<readerVars, key, workerVars, transformVars, inputVars>>

\* the generator of the current file breaks out of its loop and is
\* exhausted: back to the outer loop
FileDone ==
  /\ pc = "chunks"
  /\ gpc = "suspended"
  /\ ChunkifyBreaks
  /\ gpc' = "done"
  /\ pc' = "files"
  /\ UNCHANGED <<size, gfile, fileEnd, fpos, chunkStart, chunkEnd>>
  /\ UNCHANGED <<logfiles, cores, pool, fi, jobs, ji, payloads, results, err, completed>>
  /\ UNCHANGED <<readerVars, key, workerVars, transformVars, inputVars>>

\* the outer loop ends; payloads = []
PlanDone ==
  /\ pc = "files"
  /\ fi = Len(logfiles)
  /\ payloads' = <<>>
  /\ ji' = 1
  /\ pc' = "join"
  /\ UNCHANGED <<logfiles, cores, pool, fi, jobs, results, err, completed>>
  /\ UNCHANGED <<chunkVars, readerVars, key, workerVars, transformVars, inputVars>>

\* a worker of the pool runs the task of job j to its end:
\* process_wrapper on the job's arguments, a pure function of them
JobRun(j) ==
  /\ pool # "none"
  /\ j \in Runnable
  /\ LET r == ProcessWrapper(logfiles[jobs[j].file], key, jobs[j].start, jobs[j].size) IN
       /\ jobs' = [jobs EXCEPT ![j].state = IF r.raised THEN "failed" ELSE "done",
                               ![j].result = r.data]
       /\ completed' = completed \o r.data
  /\ UNCHANGED <<logfiles, cores, pool, pc, fi, ji, payloads, results, err>>
  /\ UNCHANGED <<chunkVars, readerVars, key, workerVars, transformVars, inputVars>>

\* (mutant) the exception of a failed task is swallowed and the loop goes on
\* with what the task had found
JoinOneSwallowing ==
  /\ pc = "join"
  /\ ji <= Len(jobs)
  /\ jobs[ji].state # "queued"
  /\ payloads' = Append(payloads, jobs[ji].result)
  /\ ji' = ji + 1
  /\ UNCHANGED <<pc, err>>
  /\ UNCHANGED <<logfiles, cores, pool, fi, jobs, results, completed>>
  /\ UNCHANGED <<chunkVars, readerVars, key, workerVars, transformVars, inputVars>>

\* `for job in jobs: result = job.get(); payloads.append(result)`: get()
\* waits for the task and raises what the task raised
JoinOne ==
  /\ pc = "join"
  /\ ji <= Len(jobs)
  /\ jobs[ji].state # "queued"
  /\ IF jobs[ji].state = "failed"
       THEN pc' = "raised" /\ err' = JobFailed /\ UNCHANGED <<ji, payloads>>
       ELSE /\ payloads' = Append(payloads, jobs[ji].result)
            /\ ji' = ji + 1
            /\ UNCHANGED <<pc, err>>
  /\ UNCHANGED <<logfiles, cores, pool, fi, jobs, results, completed>>
  /\ UNCHANGED <<chunkVars, readerVars, key, workerVars, transformVars, inputVars>>

\* (mutant) the function returns without waiting for the jobs left
SearchReturnEarly ==
  /\ pc = "join"
  /\ pool' = "closed"
  /\ results' = Flatten(payloads)
  /\ pc' = "check"
  /\ UNCHANGED <<logfiles, cores, fi, jobs, ji, payloads, err, completed>>
  /\ UNCHANGED <<chunkVars, readerVars, key, workerVars, transformVars, inputVars>>

\* pool.close(); results = [...]; return results
SearchReturn ==
  /\ pc = "join"
  /\ ji > Len(jobs)
  /\ pool' = "closed"
  /\ results' = Flatten(payloads)
  /\ pc' = "check"
  /\ UNCHANGED <<logfiles, cores, fi, jobs, ji, payloads, err, completed>>
  /\ UNCHANGED <<chunkVars, readerVars, key, workerVars, transformVars, inputVars>>

\* search_and_return_log_data: if len(payloads) == 0: raise;
\* return transform(payloads)
CheckEmpty ==
  /\ pc = "check"
  /\ IF IsEmpty(results)
       THEN pc' = "raised" /\ err' = NoLogData /\ UNCHANGED data_list
       ELSE pc' = "transform" /\ data_list' = results /\ UNCHANGED err
  /\ UNCHANGED <<logfiles, cores, pool, fi, jobs, ji, payloads, results, completed>>
  /\ UNCHANGED <<chunkVars, readerVars, key, workerVars, turns, ti, tpc, placed, inputVars>>

\* ------------------------------------------------------- the log files
\* the lines of the log files searched
SearchLines == {LineA, LineB, LineOther, TwoFieldLine}

\* the key searched for: LineA and LineB carry it
SearchKey == <<5, <<"3">>, <<"7">>>>

\* the target chunk sizes searched with: 1, which makes a chunk of every
\* line, and the default, which makes one of every file
SearchSizes == {1, DefaultChunkSize}

\* the directories of k files that hold at most n lines together, each
\* line ended by "\n"
RECURSIVE DirsOf(_, _)
DirsOf(k, n) ==
  IF k = 0 THEN {<<>>}
  ELSE UNION {{<<FileText(ls, TRUE)>> \o rest : rest \in DirsOf(k - 1, n - Len(ls))} :
                ls \in StringsUpTo(SearchLines, n)}

\* the directories searched: at most MaxFiles files of at most MaxLines
\* lines together
LogDirs == UNION {DirsOf(k, MaxLines) : k \in 0..MaxFiles}

\* search_and_return_log_data from the call of search_log_files on, over at
\* most MaxFiles log files, with a pool of at most MaxCores workers
Init ==
  /\ logfiles \in LogDirs
  /\ key = SearchKey
  /\ size \in SearchSizes
  /\ cores \in 1..MaxCores
  /\ pool = "none"
  /\ pc = "enter"
  /\ fi = 0
  /\ jobs = <<>>
  /\ ji = 0
  /\ payloads = <<>>
  /\ results = <<>>
  /\ err = "none"
  /\ completed = <<>>
  /\ TransformIdle
  /\ InputIdle
  /\ ChunkifyIdle
  /\ ReaderIdle
  /\ WorkerIdle

Next ==
  \/ SearchEnter
  \/ NextFile
  \/ SubmitJob
  \/ FileDone
  \/ PlanDone
  \/ \E j \in 1..Len(jobs) : JobRun(j)
  \/ JoinOne
  \/ SearchReturn
  \/ CheckEmpty

Spec == Init /\ [][Next]_vars

\* search_log_files has returned its results to search_and_return_log_data
Returned == pc \in {"check", "transform"} \/ (pc = "raised" /\ err = NoLogData)

\* how many times p occurs in the list ps
Count(ps, p) == Cardinality({i \in 1..Len(ps) : ps[i] = p})

\* every line of every file scanned once, file after file, line after line
RECURSIVE SequentialScan(_, _)
SequentialScan(fs, k) ==
  IF fs = <<>> THEN [raised |-> FALSE, data |-> <<>>]
  ELSE LET first == ScanAll(SplitLines(fs[1]), k, 1, <<>>)
           rest == SequentialScan(Tail(fs), k)
       IN [raised |-> first.raised \/ rest.raised, data |-> first.data \o rest.data]

\* C3: whatever the target chunk size, the size of the pool and the order
\* in which the workers run the tasks, the payloads search_log_files returns
\* are, as a multiset, those of a sequential scan of every line of every
\* file.
MergeFlattening ==
  Returned =>
    LET scan == SequentialScan(logfiles, key)
    IN /\ ~scan.raised
       /\ Len(results) = Len(scan.data)
       /\ \A p \in Payloads : Count(results, p) = Count(scan.data, p)

\* C3 witness: two files, one of them planned into several chunks, searched
\* by several workers whose tasks completed out of the order of submission,
\* with several payloads returned
MergeFlatteningWitness ==
  /\ Returned
  /\ Len(logfiles) >= 2
  /\ Len(jobs) > Len(logfiles) + 1
  /\ cores >= 2
  /\ Len(results) >= 2
  /\ completed # results

\* the results of the first n jobs, in the order of submission
RECURSIVE InSubmissionOrder(_)
InSubmissionOrder(n) == IF n = 0 THEN <<>> ELSE InSubmissionOrder(n - 1) \o jobs[n].result

\* C10 as stated: the payloads of the returned list are in the order in
\* which the worker jobs completed.
MergeInCompletionOrder == Returned => results = completed

\* C10 amended: the payloads of the returned list are in the order in which
\* the jobs were submitted, whatever the order in which they completed.
MergeInSubmissionOrder == Returned => results = InSubmissionOrder(Len(jobs))

\* C10 witness: the jobs completed in another order than the returned list
\* shows
MergeInSubmissionOrderWitness ==
  /\ Returned
  /\ Len(results) >= 2
  /\ Len(completed) = Len(results)
  /\ completed # results

\* C8: without log files the search ends with the 'Could not find logfiles'
\* error and returns nothing; with files and an empty merged list the program
\* ends with the other error, 'No log data found', and transform is not
\* called; otherwise, no worker having failed, transform is called with the
\* merged list, which is not empty.
FatalConditions ==
  /\ NoLogFiles # NoLogData
  /\ (logfiles = <<>> /\ pc # "enter") =>
       pc = "raised" /\ err = NoLogFiles /\ jobs = <<>> /\ results = <<>> /\ data_list = <<>>
  /\ pc = "raised" =>
       \/ err = NoLogFiles /\ logfiles = <<>>
       \/ /\ err = NoLogData
          /\ logfiles # <<>>
          /\ results = <<>>
          /\ ji > Len(jobs)
          /\ data_list = <<>>
       \/ err = JobFailed /\ \E j \in 1..Len(jobs) : jobs[j].state = "failed"
  /\ pc = "transform" =>
       /\ logfiles # <<>>
       /\ results # <<>>
       /\ data_list = results
       /\ \A j \in 1..Len(jobs) : jobs[j].state = "done"

\* C8 witness: files were found and searched to the end, nothing matched,
\* and the program ended with 'No log data found'
FatalConditionsWitness ==
  /\ pc = "raised"
  /\ err = NoLogData
  /\ Len(logfiles) >= 2
  /\ Len(jobs) >= 3

\* the chunks chunkify(content, sz) yields when its loop starts with
\* chunkEnd = end
RECURSIVE PlanFrom(_, _, _)
PlanFrom(content, sz, end) ==
  LET e == TellAfterReadline(content, SeekCur(end, sz))
  IN <<YieldValue(end, e)>> \o (IF e > Len(content) THEN <<>> ELSE PlanFrom(content, sz, e))

\* list(chunkify(content, sz))
ChunkPlan(content, sz) == PlanFrom(content, sz, 0)

\* the arguments of the jobs of the first n files: one job per chunk of
\* the plan of each file, file after file
RECURSIVE PlannedJobs(_)
PlannedJobs(n) ==
  IF n = 0 THEN <<>>
  ELSE LET plan == ChunkPlan(logfiles[n], size)
       IN PlannedJobs(n - 1) \o [c \in 1..Len(plan) |-> <<n, plan[c][1], plan[c][2]>>]

\* the arguments the jobs were submitted with
SubmittedJobs == [j \in 1..Len(jobs) |-> <<jobs[j].file, jobs[j].start, jobs[j].size>>]

\* C11: no result is awaited before every chunk of every file has been
\* submitted, one job per planned chunk and no other job; and when
\* search_log_files returns, every job submitted has completed and its
\* result has been collected into payloads.
BlockingJoin ==
  /\ pc \in {"enter", "files", "chunks"} => (ji = 0 /\ payloads = <<>>)
  /\ (pc \in {"join", "check", "transform"} \/ (pc = "raised" /\ err # NoLogFiles)) =>
       SubmittedJobs = PlannedJobs(Len(logfiles))
  /\ Returned =>
       /\ Len(payloads) = Len(jobs)
       /\ \A j \in 1..Len(jobs) : jobs[j].state = "done" /\ payloads[j] = jobs[j].result

\* C11 witness: the search returned after the jobs of two files, one of
\* them planned into several chunks, were joined
BlockingJoinWitness ==
  /\ pc = "check"
  /\ Len(logfiles) >= 2
  /\ Len(jobs) >= 4
  /\ Len(payloads) = Len(jobs)
  /\ \E j \in 1..Len(jobs) : jobs[j].result # <<>>

\* a task has failed
SomeJobFailed == \E j \in 1..Len(jobs) : jobs[j].state = "failed"

\* the main program takes a step
MainStep == pc' # pc \/ ji' # ji \/ fi' # fi \/ Len(jobs') # Len(jobs)

\* C12: once a worker job has failed, search_log_files returns no list,
\* partial or not, and nothing reaches transform; the join passes no failed
\* job, and the step search_log_files takes at a failed job is to raise its
\* exception; a job whose task has run, failed or not, is never run again.
FailurePropagation ==
  /\ [](SomeJobFailed => (~Returned /\ results = <<>> /\ data_list = <<>>))
  /\ [](pc = "join" => \A j \in 1..ji - 1 : jobs[j].state = "done")
  /\ []((pc = "raised" /\ err = JobFailed) => (ji <= Len(jobs) /\ jobs[ji].state = "failed"))
  /\ [][(pc = "join" /\ ji <= Len(jobs) /\ jobs[ji].state = "failed" /\ MainStep)
          => (pc' = "raised" /\ err' = JobFailed /\ results' = <<>>)]_vars
  /\ [][\A j \in 1..Len(jobs) : jobs[j].state # "queued" => jobs'[j] = jobs[j]]_vars

\* C12 witness: the search raised the exception of a failed job after it
\* had collected payloads of another job
FailurePropagationWitness ==
  /\ pc = "raised"
  /\ err = JobFailed
  /\ payloads # <<>>
  /\ \E j \in 1..Len(payloads) : payloads[j] # <<>>
  /\ results = <<>>

\* search_log_files has been left, by its return or by an exception
SearchLeft == pc \in {"check", "transform", "raised"}

\* C13: on whatever path search_log_files is left (its return, no log file
\* found, a failed worker job), the pool it created has been shut down.
PoolLifecycle == SearchLeft => pool = "closed"

\* what process_wrapper returns for the arguments of each job, job after job
ChunkResults ==
  [j \in 1..Len(jobs) |->
     ProcessWrapper(logfiles[jobs[j].file], key, jobs[j].start, jobs[j].size).data]

\* C17: the list search_log_files returns is determined by the files, their
\* order and the key alone: it is the per-chunk results concatenated in the
\* order of the jobs, which is the list of the matching payloads file after
\* file and, within a file, in the order of its lines, whatever the order
\* in which the workers completed.
DeterministicMerge ==
  Returned =>
    /\ results = Flatten(ChunkResults)
    /\ results = SequentialScan(logfiles, key).data

\* C17 witness: one file planned into a chunk per line, whose second line
\* was scanned before its first; the list returned has the payloads in the
\* order of the lines
DeterministicMergeWitness ==
  /\ Returned
  /\ Len(logfiles) = 1
  /\ Len(jobs) >= 3
  /\ results = <<PayloadOf(LineA), PayloadOf(LineB)>>
  /\ completed = <<PayloadOf(LineB), PayloadOf(LineA)>>

\* ---------------------------------------------------------- transform
\* most payloads of the list transform folds
MaxEvents == 3
\* highest turn number of a payload
MaxTurn == 2

\* a payload after json.loads
Event(who, item, turn, x, y) ==
  [who |-> who, item |-> item, turn |-> turn, coordinates |-> [x |-> x, y |-> y]]

\* the payloads of one turn: a food, two segments of snake 7, the head of
\* snake 8 and a payload that is neither food nor a segment
EventsOfTurn(t) ==
  { Event("7", "food", t, 1, 1), Event("7", "head", t, 2, 2), Event("7", "body", t, 2, 3),
    Event("8", "head", t, 4, 4), Event("7", "move", t, 0, 0) }

Events == UNION {EventsOfTurn(t) : t \in 0..MaxTurn}

\* the entry transform appends for a turn
Entry(turn) ==
  [turn |-> turn, height |-> 10, width |-> 10, snakes |-> <<>>, food |-> <<>>]

\* turns after `if len(turns) <= turn: turns.append(entry)`
WithEntry(ts, turn) == IF Len(ts) <= turn THEN Append(ts, Entry(turn)) ELSE ts

\* is the item a snake segment
IsSegment(what) == what = "head" \/ what = "tail" \/ what = "body"

\* does turns[turn] raise IndexError
OutOfRange(ts, turn) == turn + 1 > Len(ts)

\* (mutant) food is kept as a set: a food already there is not added again
AddFoodOnce(entry, c) ==
  IF \E i \in 1..Len(entry.food) : entry.food[i] = [x |-> c.x, y |-> c.y]
  THEN entry
  ELSE [entry EXCEPT !.food = Append(@, [x |-> c.x, y |-> c.y])]

\* the entry after turns[turn]['food']['data'].append({'x': .., 'y': ..})
AddFood(entry, c) == [entry EXCEPT !.food = Append(@, [x |-> c.x, y |-> c.y])]

\* the indexes of filter(lambda snake: snake['id'] == who, ..), in order
SnakesOf(entry, who) == {i \in 1..Len(entry.snakes) : entry.snakes[i].id = who}

\* (mutant) the length of a snake follows the number of its segments
AddSegmentCounting(entry, who, what, c) ==
  LET seg == [object |-> what, x |-> c.x, y |-> c.y]
      found == SnakesOf(entry, who)
  IN IF found = {}
     THEN [entry EXCEPT !.snakes =
             Append(@, [id |-> who, data |-> <<seg>>, length |-> 99, health |-> 99])]
     ELSE LET first == CHOOSE i \in found : \A j \in found : i <= j
          IN [entry EXCEPT !.snakes[first].data = Append(@, seg),
                           !.snakes[first].length = Len(entry.snakes[first].data) + 1]

\* the entry after the segment went to the first snake of the participant,
\* or to a new snake appended for it
AddSegment(entry, who, what, c) ==
  LET seg == [object |-> what, x |-> c.x, y |-> c.y]
      found == SnakesOf(entry, who)
  IN IF found = {}
     THEN [entry EXCEPT !.snakes =
             Append(@, [id |-> who, data |-> <<seg>>, length |-> 99, health |-> 99])]
     ELSE LET first == CHOOSE i \in found : \A j \in found : i <= j
          IN [entry EXCEPT !.snakes[first].data = Append(@, seg)]

\* one pass of the loop of transform: whether it raised, turns after it and
\* the index in turns of the entry the payload went to (0 for none)
TransformStep(ts, data) ==
  LET turn == data.turn
      what == data.item
      ts1 == WithEntry(ts, turn)
  IN IF what = "food" \/ IsSegment(what)
     THEN IF OutOfRange(ts1, turn)
          THEN [raised |-> TRUE, turns |-> ts1, placed |-> 0]
          ELSE [raised |-> FALSE,
                turns |-> [ts1 EXCEPT ![turn + 1] =
                             IF what = "food"
                             THEN AddFood(@, data.coordinates)
                             ELSE AddSegment(@, data.who, what, data.coordinates)],
                placed |-> turn + 1]
     ELSE [raised |-> FALSE, turns |-> ts1, placed |-> 0]

\* transform(dl) from the payload at index i on, with turns being ts
RECURSIVE TransformFrom(_, _, _)
TransformFrom(dl, i, ts) ==
  IF i > Len(dl)
  THEN [raised |-> FALSE, turns |-> ts]
  ELSE LET r == TransformStep(ts, dl[i])
       IN IF r.raised
          THEN [raised |-> TRUE, turns |-> r.turns]
          ELSE TransformFrom(dl, i + 1, r.turns)

\* transform(dl)
Transform(dl) == TransformFrom(dl, 1, <<>>)

\* turns = []
TransformEnter ==
  /\ tpc = "enter"
  /\ turns' = <<>>
  /\ ti' = 1
  /\ tpc' = "loop"
  /\ UNCHANGED <<data_list, placed>>

\* for data in data_list: one pass of the loop
TransformEvent ==
  /\ tpc = "loop"
  /\ ti <= Len(data_list)
  /\ LET r == TransformStep(turns, data_list[ti])
     IN /\ turns' = r.turns
        /\ placed' = r.placed
        /\ IF r.raised
           THEN tpc' = "raised" /\ UNCHANGED ti
           ELSE ti' = ti + 1 /\ UNCHANGED tpc
  /\ UNCHANGED data_list

\* return turns
TransformReturn ==
  /\ tpc = "loop"
  /\ ti > Len(data_list)
  /\ tpc' = "returned"
  /\ UNCHANGED <<data_list, turns, ti, placed>>

\* transform on every list of at most MaxEvents payloads
InitTransform ==
  /\ data_list \in StringsUpTo(Events, MaxEvents)
  /\ turns = <<>>
  /\ ti = 0
  /\ tpc = "enter"
  /\ placed = 0
  /\ InputIdle
  /\ key = <<>>
  /\ size = DefaultChunkSize
  /\ ChunkifyIdle
  /\ ReaderIdle
  /\ WorkerIdle
  /\ SearchIdle

NextTransform ==
  \/ TransformEnter /\ UNCHANGED <<chunkVars, readerVars, key, workerVars, searchVars, inputVars>>
  \/ TransformEvent /\ UNCHANGED <<chunkVars, readerVars, key, workerVars, searchVars, inputVars>>
  \/ TransformReturn /\ UNCHANGED <<chunkVars, readerVars, key, workerVars, searchVars, inputVars>>

SpecTransform == InitTransform /\ [][NextTransform]_vars

\* the participants and the coordinates of the payloads
Whos == {e.who : e \in Events}
Coordinates == {e.coordinates : e \in Events}

\* how many food entries at c the snapshots of turn n hold
FoodCount(ts, n, c) ==
  Cardinality({ij \in (1..Len(ts)) \X (1..MaxEvents) :
                 /\ ts[ij[1]].turn = n
                 /\ ij[2] <= Len(ts[ij[1]].food)
                 /\ ts[ij[1]].food[ij[2]] = c})

\* the segments the snapshots of turn n hold for a participant
Segments(ts, n, who) ==
  UNION { UNION { {ts[i].snakes[j].data[k] : k \in 1..Len(ts[i].snakes[j].data)} :
                  j \in {j \in 1..Len(ts[i].snakes) : ts[i].snakes[j].id = who} } :
          i \in {i \in 1..Len(ts) : ts[i].turn = n} }

\* the same food multiset and the same segments per participant, turn by turn
SameContent(a, b) ==
  \A n \in 0..MaxTurn :
    /\ \A c \in Coordinates : FoodCount(a, n, c) = FoodCount(b, n, c)
    /\ \A who \in Whos : Segments(a, n, who) = Segments(b, n, who)

\* data_list reordered by the permutation p of its indexes
Reordered(p) == [i \in 1..Len(data_list) |-> data_list[p[i]]]

\* C6: once transform has returned turns for data_list, transform of every
\* permutation of data_list completes as well, and its snapshots hold, for
\* every turn, the same food multiset and the same set of segments per
\* participant as turns.
OrderInsensitivity ==
  tpc = "returned" =>
    \A p \in Permutations(1..Len(data_list)) :
      LET r == Transform(Reordered(p))
      IN ~r.raised /\ SameContent(r.turns, turns)

\* the payload the loop of transform processed last
LastEvent == data_list[IF tpc = "raised" THEN ti ELSE ti - 1]

\* the turn numbers of the payloads
TurnsObserved == {data_list[i].turn : i \in 1..Len(data_list)}

\* C7: transform never fails on a payload; after it has processed a payload
\* of turn N a snapshot whose turn field is N exists, and the food or the
\* segment of the payload went into a snapshot whose turn field is N; the
\* sequence returned holds one snapshot per turn number of the payloads, in
\* strictly increasing order of turn.
TurnSnapshots ==
  /\ tpc # "raised"
  /\ (tpc \in {"loop", "returned"} /\ ti > 1) =>
       /\ \E i \in 1..Len(turns) : turns[i].turn = LastEvent.turn
       /\ (LastEvent.item = "food" \/ IsSegment(LastEvent.item)) =>
            (placed # 0 /\ turns[placed].turn = LastEvent.turn)
  /\ tpc = "returned" =>
       /\ {turns[i].turn : i \in 1..Len(turns)} = TurnsObserved
       /\ \A i \in 1..Len(turns) - 1 : turns[i].turn < turns[i + 1].turn

\* the segment a payload describes
SegmentOf(data) == [object |-> data.item, x |-> data.coordinates.x, y |-> data.coordinates.y]

\* the snapshot `after` is the snapshot `before` with one segment added for
\* the participant of the payload: in a record of its own when the
\* participant had none, else as the last segment of its record; the other
\* records, the food and the fields of the snapshot are as before
SegmentAdded(before, after, data) ==
  LET had == SnakesOf(before, data.who)
      has == SnakesOf(after, data.who)
  IN /\ Cardinality(has) = 1
     /\ [after EXCEPT !.snakes = before.snakes] = before
     /\ IF had = {}
        THEN /\ Len(after.snakes) = Len(before.snakes) + 1
             /\ has = {Len(after.snakes)}
             /\ after.snakes[Len(after.snakes)].data = <<SegmentOf(data)>>
             /\ SubSeq(after.snakes, 1, Len(before.snakes)) = before.snakes
        ELSE /\ Len(after.snakes) = Len(before.snakes)
             /\ has = had
             /\ \A j \in 1..Len(after.snakes) :
                  IF j \in had
                  THEN after.snakes[j] =
                         [before.snakes[j] EXCEPT !.data = Append(@, SegmentOf(data))]
                  ELSE after.snakes[j] = before.snakes[j]

\* C15: every snapshot holds at most one snake record per participant; and
\* a head, body or tail payload of turn N adds its one segment to the
\* snapshot of turn N (to a new record when the participant has none there,
\* else to its record) and leaves the snapshots of the other turns as they
\* were.
SnakeUniqueness ==
  /\ [](\A i \in 1..Len(turns) : \A who \in Whos : Cardinality(SnakesOf(turns[i], who)) <= 1)
  /\ [][(tpc = "loop" /\ ti <= Len(data_list) /\ IsSegment(data_list[ti].item)) =>
          /\ tpc' = "loop"
          /\ \A i \in 1..Len(turns) :
               turns[i].turn # data_list[ti].turn => turns'[i] = turns[i]
          /\ \E i \in 1..Len(turns') :
               /\ turns'[i].turn = data_list[ti].turn
               /\ SegmentAdded(IF i <= Len(turns) THEN turns[i] ELSE Entry(data_list[ti].turn),
                               turns'[i], data_list[ti])]_vars

\* C16: every snapshot has width 10 and height 10 and every snake record
\* length 99 and health 99, from its creation on; and no payload changes the
\* turn, width or height of a snapshot there is, or the id, length or health
\* of a snake record there is.
FixedPlaceholders ==
  /\ [](\A i \in 1..Len(turns) :
          /\ turns[i].width = 10
          /\ turns[i].height = 10
          /\ \A j \in 1..Len(turns[i].snakes) :
               turns[i].snakes[j].length = 99 /\ turns[i].snakes[j].health = 99)
  /\ [][/\ Len(turns') >= Len(turns)
        /\ \A i \in 1..Len(turns) :
             /\ turns'[i].turn = turns[i].turn
             /\ turns'[i].width = turns[i].width
             /\ turns'[i].height = turns[i].height
             /\ Len(turns'[i].snakes) >= Len(turns[i].snakes)
             /\ \A j \in 1..Len(turns[i].snakes) :
                  /\ turns'[i].snakes[j].id = turns[i].snakes[j].id
                  /\ turns'[i].snakes[j].length = turns[i].snakes[j].length
                  /\ turns'[i].snakes[j].health = turns[i].snakes[j].health]_vars

\* C16 witness: transform returned two snapshots, one of them with a snake
\* that got a second segment after its record was created
FixedPlaceholdersWitness ==
  /\ tpc = "returned"
  /\ Len(turns) >= 2
  /\ \E i \in 1..Len(turns) : \E j \in 1..Len(turns[i].snakes) :
       Len(turns[i].snakes[j].data) >= 2

\* the number of segments of the first n snake records of a snapshot
RECURSIVE SegmentsIn(_, _)
SegmentsIn(entry, n) ==
  IF n = 0 THEN 0 ELSE SegmentsIn(entry, n - 1) + Len(entry.snakes[n].data)

\* the number of food entries and segments of the first n snapshots
RECURSIVE Placed(_, _)
Placed(ts, n) ==
  IF n = 0 THEN 0
  ELSE Placed(ts, n - 1) + Len(ts[n].food) + SegmentsIn(ts[n], Len(ts[n].snakes))

\* how many of the first n payloads are a food, a head, a body or a tail
Placeable(n) ==
  Cardinality({i \in 1..n : data_list[i].item = "food" \/ IsSegment(data_list[i].item)})

\* C19: when transform has completed, the snapshots hold as many food
\* entries and segments together as there are food, head, body and tail
\* payloads: duplicates are kept, and a payload of another item adds
\* nothing.  The count is kept payload by payload while the loop runs.
EventConservation ==
  /\ tpc = "returned" => Placed(turns, Len(turns)) = Placeable(Len(data_list))
  /\ tpc = "loop" => Placed(turns, Len(turns)) = Placeable(ti - 1)

\* C19 witness: transform completed on a list that holds the same food
\* payload twice and a payload that is neither food nor a segment
EventConservationWitness ==
  /\ tpc = "returned"
  /\ \E i, j \in 1..Len(data_list) :
       i < j /\ data_list[i] = data_list[j] /\ data_list[i].item = "food"
  /\ \E k \in 1..Len(data_list) : data_list[k].item = "move"
  /\ Placed(turns, Len(turns)) = 2

\* ------------------------------------------------------ get_user_input
\* most options of the list get_user_input offers
MaxOptions == 2

ChoiceOutOfRange == "Choice out of range"
IndexError == "IndexError"

\* the integers the user may enter: from two below -MaxOptions to two above
\* MaxOptions
Choices == (0 - MaxOptions - 2)..(MaxOptions + 2)

\* `choice < -1 or choice > len(option_list)`
OutOfChoiceRange(c, n) == c < -1 \/ c > n

\* whether list[i] exists for a list of n items: Python counts a negative i
\* from the end
HasIndex(i, n) == IF i >= 0 THEN i < n ELSE 0 - i <= n

\* list[i] (the sequence is 1-based)
ItemAt(list, i) == IF i >= 0 THEN list[i + 1] ELSE list[Len(list) + i + 1]

\* the options are printed; choice = input('Choice: ')
InputPrompt ==
  /\ upc = "prompt"
  /\ choice' \in Choices
  /\ upc' = "check"
  /\ UNCHANGED <<option_list, key, err>>

\* if (choice < -1 or choice > len(option_list)): raise
InputCheck ==
  /\ upc = "check"
  /\ IF OutOfChoiceRange(choice, Len(option_list))
       THEN upc' = "raised" /\ err' = ChoiceOutOfRange
       ELSE upc' = "index" /\ UNCHANGED err
  /\ UNCHANGED <<option_list, choice, key>>

\* return option_list[choice]
InputReturn ==
  /\ upc = "index"
  /\ IF HasIndex(choice, Len(option_list))
       THEN upc' = "returned" /\ key' = ItemAt(option_list, choice) /\ UNCHANGED err
       ELSE upc' = "raised" /\ err' = IndexError /\ UNCHANGED key
  /\ UNCHANGED <<option_list, choice>>

\* get_user_input on every list of at most MaxOptions replay keys
InitInput ==
  /\ option_list \in StringsUpTo(Keys, MaxOptions)
  /\ choice = 0
  /\ upc = "prompt"
  /\ key = <<>>
  /\ size = DefaultChunkSize
  /\ ChunkifyIdle
  /\ ReaderIdle
  /\ WorkerIdle
  /\ SearchIdle
  /\ TransformIdle

NextInput ==
  \/ InputPrompt /\ UNCHANGED <<chunkVars, readerVars, workerVars, transformVars>>
                 /\ UNCHANGED <<logfiles, cores, pool, pc, fi, jobs, ji, payloads, results, completed>>
  \/ InputCheck /\ UNCHANGED <<chunkVars, readerVars, workerVars, transformVars>>
                /\ UNCHANGED <<logfiles, cores, pool, pc, fi, jobs, ji, payloads, results, completed>>
  \/ InputReturn /\ UNCHANGED <<chunkVars, readerVars, workerVars, transformVars>>
                 /\ UNCHANGED <<logfiles, cores, pool, pc, fi, jobs, ji, payloads, results, completed>>

SpecInput == InitInput /\ [][NextInput]_vars

\* C18: for an option list of n options get_user_input returns
\* option_list[choice] for a choice of 0..n-1 and the last option for the
\* choice -1, and ends with the 'Choice out of range' error for every other
\* choice, n included.
ChoiceValidation ==
  LET n == Len(option_list) IN
  /\ upc = "returned" =>
       \/ choice \in 0..n - 1 /\ key = option_list[choice + 1]
       \/ choice = -1 /\ n >= 1 /\ key = option_list[n]
  /\ upc = "raised" =>
       /\ err = ChoiceOutOfRange
       /\ choice \notin 0..n - 1
       /\ choice # -1

====
